---------------------------- MODULE Spec2Model ----------------------------
(***************************************************************************)
(* Transient simulators of the repository:                                 *)
(*   - the series RL script   (src/CIrcuitoPiSérie.py, lines 70-194)       *)
(*   - the RLC-with-load script (src/test.py)                              *)
(* Both advance a state vector over a fixed time grid with the trapezoidal  *)
(* rule.  Each script is one sequential program; pc is its position.        *)
(*                                                                         *)
(* Python floats are modelled as exact rationals <<num, den>> in lowest     *)
(* terms with den > 0, so equal values are equal tuples.  The module-level  *)
(* parameters of the scripts (L, C, source voltage, dt, t_max) are the      *)
(* configuration of a run and are drawn from small sets in Init.            *)
(***************************************************************************)
EXTENDS Integers, Sequences, FiniteSets, TLC

(***************************************************************************)
(* Bounds of the model.                                                    *)
(***************************************************************************)
\* t_max ranges over k half-steps of the nominal dt, k \in 1..MaxHorizon
MaxHorizon == 15

(***************************************************************************)
(* Exact rational arithmetic (Python float +, -, *, /, <, int()).          *)
(***************************************************************************)
Abs(k) == IF k < 0 THEN -k ELSE k

\* The arithmetic is defined as functions, which are applied to values.
Q == Int \X Int

GCD[a \in Nat, b \in Nat] == IF b = 0 THEN a ELSE GCD[b, a % b]

Rat[num \in Int, den \in Int] ==
    LET g == GCD[Abs(num), Abs(den)]
        s == IF den < 0 THEN -1 ELSE 1
    IN  <<(s * num) \div g, (s * den) \div g>>

Zero == <<0, 1>>
One == <<1, 1>>
FromInt(k) == <<k, 1>>

RNeg[p \in Q] == <<-p[1], p[2]>>

RAdd[p \in Q, q \in Q] ==
    LET g == GCD[p[2], q[2]]
        a == q[2] \div g
        b == p[2] \div g
    IN  Rat[p[1] * a + q[1] * b, p[2] * a]

RSub[p \in Q, q \in Q] == RAdd[p, RNeg[q]]

RMul[p \in Q, q \in Q] ==
    LET g1 == GCD[Abs(p[1]), q[2]]
        g2 == GCD[Abs(q[1]), p[2]]
    IN  <<(p[1] \div g1) * (q[1] \div g2), (p[2] \div g2) * (q[2] \div g1)>>

\* only applied to q # Zero (the callers raise ZeroDivisionError first)
RInv[q \in Q] == IF q[1] < 0 THEN <<-q[2], -q[1]>> ELSE <<q[2], q[1]>>

RDiv[p \in Q, q \in Q] == RMul[p, RInv[q]]

RLt[p \in Q, q \in Q] ==
    LET g == GCD[p[2], q[2]]
    IN  p[1] * (q[2] \div g) < q[1] * (p[2] \div g)

RLe[p \in Q, q \in Q] == p = q \/ RLt[p, q]

\* Python int(): truncation toward zero
PyInt(q) == IF q[1] >= 0 THEN q[1] \div q[2] ELSE -((-q[1]) \div q[2])

\* np.zeros(k)
np_zeros(k) == [i \in 0..(k - 1) |-> Zero]

\* np.linspace(0, stop, num) for num >= 0: num points, the last one is stop
np_linspace(stop, num) ==
    IF num = 1 THEN [i \in 0..0 |-> Zero]
    ELSE [i \in 0..(num - 1) |-> RMul[FromInt(i), RDiv[stop, FromInt(num - 1)]]]

(***************************************************************************)
(* Parameter schedules.                                                    *)
(***************************************************************************)
R_load_initial == 50

pegar_resistencia_incl(time) ==
    IF RLe[time, Rat[5, 100]] THEN FromInt(10) ELSE FromInt(1)

pegar_resistencia(time) ==
    IF RLt[time, Rat[5, 100]] THEN FromInt(10) ELSE FromInt(1)

load_resistance(time_step) ==
    IF RLt[time_step, Rat[5, 1000]] THEN FromInt(R_load_initial)
    ELSE RDiv[FromInt(R_load_initial), FromInt(2)]

(***************************************************************************)
(* State.                                                                  *)
(***************************************************************************)
VARIABLES
    topology,          \* "RL" or "RLC": which script runs
    L, C, V_source, dt, t_max,      \* configuration of the run
    pc, err,           \* position in the script, exception raised
    n_steps, t, n,     \* grid size, time grid, loop variable (-1: unbound)
    i_L, x,            \* inductor current series, current state
    v_R, v_L,          \* RL output series
    u, R_n, A, B, lado_esquerdo, lado_direito, x_proximo, R_proxima,
    v_C, i_load,       \* RLC series
    u_vec, R_load_n, A_load, left_side, right_side_matrix,
    right_side_vector, x_next, R_load_next,
    log                \* history: the series writes of the loop, in order

config == <<topology, L, C, V_source, dt, t_max>>
grid == <<n_steps, t>>
rlSeries == <<v_R, v_L>>
rlTemps == <<u, R_n, A, B, lado_esquerdo, lado_direito, x_proximo, R_proxima>>
rlcSeries == <<v_C, i_load>>
rlcTemps == <<u_vec, R_load_n, A_load, left_side, right_side_matrix,
              right_side_vector, x_next, R_load_next>>
vars == <<config, pc, err, grid, n, i_L, x, rlSeries, rlTemps,
          rlcSeries, rlcTemps, log>>

None == << >>

RaiseError(e) == pc' = "error" /\ err' = e

(***************************************************************************)
(* Configurations.                                                         *)
(***************************************************************************)
RL_Configs ==
    [topology : {"RL"},
     L : {Zero, Rat[1, 10]},
     C : {Zero},
     V_source : {Zero, FromInt(220)},
     dt : {Rat[-1, 100], Zero, Rat[1, 100]},
     t_max : {Rat[k, 200] : k \in 1..MaxHorizon}]

RLC_Configs ==
    [topology : {"RLC"},
     L : {Zero, Rat[1, 16]},
     C : {Zero, Rat[1, 40000]},
     V_source : {Zero, FromInt(100)},
     dt : {Rat[-1, 400], Zero, Rat[1, 400]},
     t_max : {Rat[k, 800] : k \in 1..MaxHorizon}]

Init ==
    /\ \E c \in RL_Configs \cup RLC_Configs :
          /\ topology = c.topology
          /\ L = c.L
          /\ C = c.C
          /\ V_source = c.V_source
          /\ dt = c.dt
          /\ t_max = c.t_max
    /\ pc = "setup"
    /\ err = "none"
    /\ n_steps = 0
    /\ t = << >>
    /\ n = -1
    /\ i_L = << >>
    /\ x = None
    /\ v_R = << >>
    /\ v_L = << >>
    /\ u = None
    /\ R_n = None
    /\ A = None
    /\ B = None
    /\ lado_esquerdo = None
    /\ lado_direito = None
    /\ x_proximo = None
    /\ R_proxima = None
    /\ v_C = << >>
    /\ i_load = << >>
    /\ u_vec = None
    /\ R_load_n = None
    /\ A_load = None
    /\ left_side = None
    /\ right_side_matrix = None
    /\ right_side_vector = None
    /\ x_next = None
    /\ R_load_next = None
    /\ log = << >>

(***************************************************************************)
(* RL script.                                                              *)
(***************************************************************************)
\* lines 101-104: n_steps = int(t_max / dt)
RL_Steps ==
    /\ topology = "RL"
    /\ pc = "setup"
    /\ IF dt = Zero
       THEN /\ RaiseError("ZeroDivisionError")
            /\ UNCHANGED n_steps
       ELSE /\ n_steps' = PyInt(RDiv[t_max, dt])
            /\ pc' = "alloc"
            /\ err' = err
    /\ UNCHANGED <<config, t, n, i_L, x, rlSeries, rlTemps, rlcSeries,
                   rlcTemps, log>>

\* lines 105-126: t, the zero series, x = 0, u = V_fonte
RL_Alloc ==
    /\ topology = "RL"
    /\ pc = "alloc"
    /\ IF n_steps < 0
       THEN /\ RaiseError("ValueError")
            /\ UNCHANGED <<t, i_L, x, rlSeries, u>>
       ELSE /\ t' = np_linspace(t_max, n_steps)
            /\ i_L' = np_zeros(n_steps)
            /\ v_R' = np_zeros(n_steps)
            /\ v_L' = np_zeros(n_steps)
            /\ x' = Zero
            /\ u' = V_source
            /\ pc' = "for"
            /\ err' = err
    /\ UNCHANGED <<config, n_steps, n, R_n, A, B, lado_esquerdo, lado_direito,
                   x_proximo, R_proxima, rlcSeries, rlcTemps, log>>

\* line 129: for n in range(n_steps - 1)
RL_For_short ==
    /\ topology = "RL"
    /\ pc = "for"
    /\ IF n + 1 < n_steps - 2
       THEN n' = n + 1 /\ pc' = "build"
       ELSE n' = n /\ pc' = "done"
    /\ UNCHANGED <<config, err, grid, i_L, x, rlSeries, rlTemps,
                   rlcSeries, rlcTemps, log>>

RL_For ==
    /\ topology = "RL"
    /\ pc = "for"
    /\ IF n + 1 < n_steps - 1
       THEN n' = n + 1 /\ pc' = "build"
       ELSE n' = n /\ pc' = "done"
    /\ UNCHANGED <<config, err, grid, i_L, x, rlSeries, rlTemps,
                   rlcSeries, rlcTemps, log>>

\* line 136: A = -R_n / L
RL_A(R_val) == RDiv[RNeg[R_val], L]

\* lines 132-137: R_n, A = -R_n / L, B = 1 / L
RL_Build ==
    /\ topology = "RL"
    /\ pc = "build"
    /\ R_n' = pegar_resistencia(t[n])
    /\ IF L = Zero
       THEN /\ RaiseError("ZeroDivisionError")
            /\ UNCHANGED <<A, B>>
       ELSE /\ A' = RL_A(R_n')
            /\ B' = RDiv[One, L]
            /\ pc' = "solve"
            /\ err' = err
    /\ UNCHANGED <<config, grid, n, i_L, x, rlSeries, u, lado_esquerdo,
                   lado_direito, x_proximo, R_proxima, rlcSeries, rlcTemps, log>>

Half_dt == RDiv[dt, FromInt(2)]

\* lines 144-151 with the source term dropped from the right-hand side
RL_Solve_no_u ==
    /\ topology = "RL"
    /\ pc = "solve"
    /\ lado_esquerdo' = RSub[One, RMul[Half_dt, A]]
    /\ lado_direito' = RAdd[RMul[RAdd[One, RMul[Half_dt, A]], x], RMul[dt, B]]
    /\ IF lado_esquerdo' = Zero
       THEN /\ RaiseError("ZeroDivisionError")
            /\ UNCHANGED x_proximo
       ELSE /\ x_proximo' = RDiv[lado_direito', lado_esquerdo']
            /\ pc' = "store_i"
            /\ err' = err
    /\ UNCHANGED <<config, grid, n, i_L, x, rlSeries, u, R_n, A, B, R_proxima,
                   rlcSeries, rlcTemps, log>>

\* lines 144-151 with the sign of the left-hand coefficient flipped
RL_Solve_sign ==
    /\ topology = "RL"
    /\ pc = "solve"
    /\ lado_esquerdo' = RAdd[One, RMul[Half_dt, A]]
    /\ lado_direito' = RAdd[RMul[RAdd[One, RMul[Half_dt, A]], x],
                            RMul[RMul[dt, B], u]]
    /\ IF lado_esquerdo' = Zero
       THEN /\ RaiseError("ZeroDivisionError")
            /\ UNCHANGED x_proximo
       ELSE /\ x_proximo' = RDiv[lado_direito', lado_esquerdo']
            /\ pc' = "store_i"
            /\ err' = err
    /\ UNCHANGED <<config, grid, n, i_L, x, rlSeries, u, R_n, A, B, R_proxima,
                   rlcSeries, rlcTemps, log>>

\* lines 144-151: lado_esquerdo, lado_direito, x_proximo
RL_Solve ==
    /\ topology = "RL"
    /\ pc = "solve"
    /\ lado_esquerdo' = RSub[One, RMul[Half_dt, A]]
    /\ lado_direito' = RAdd[RMul[RAdd[One, RMul[Half_dt, A]], x],
                            RMul[RMul[dt, B], u]]
    /\ IF lado_esquerdo' = Zero
       THEN /\ RaiseError("ZeroDivisionError")
            /\ UNCHANGED x_proximo
       ELSE /\ x_proximo' = RDiv[lado_direito', lado_esquerdo']
            /\ pc' = "store_i"
            /\ err' = err
    /\ UNCHANGED <<config, grid, n, i_L, x, rlSeries, u, R_n, A, B, R_proxima,
                   rlcSeries, rlcTemps, log>>

\* lines 156-159 writing the current index instead of the next one
RL_StoreState_same_index ==
    /\ topology = "RL"
    /\ pc = "store_i"
    /\ i_L' = [i_L EXCEPT ![n] = x_proximo]
    /\ log' = Append(log, <<"i_L", n>>)
    /\ x' = x_proximo
    /\ pc' = "store_vR"
    /\ UNCHANGED <<config, err, grid, n, rlSeries, rlTemps, rlcSeries, rlcTemps>>

\* lines 156-159: i_L[n + 1] = x_proximo; x = x_proximo
RL_StoreState ==
    /\ topology = "RL"
    /\ pc = "store_i"
    /\ i_L' = [i_L EXCEPT ![n + 1] = x_proximo]
    /\ log' = Append(log, <<"i_L", n + 1>>)
    /\ x' = x_proximo
    /\ pc' = "store_vR"
    /\ UNCHANGED <<config, err, grid, n, rlSeries, rlTemps, rlcSeries, rlcTemps>>

\* lines 162-163 with the resistance of the start of the step
RL_Store_vR_stale ==
    /\ topology = "RL"
    /\ pc = "store_vR"
    /\ R_proxima' = R_n
    /\ v_R' = [v_R EXCEPT ![n + 1] = RMul[R_proxima', i_L[n + 1]]]
    /\ log' = Append(log, <<"v_R", n + 1>>)
    /\ pc' = "store_vL"
    /\ UNCHANGED <<config, err, grid, n, i_L, x, v_L, u, R_n, A, B,
                   lado_esquerdo, lado_direito, x_proximo, rlcSeries, rlcTemps>>

\* lines 162-163: R_proxima = pegar_resistencia(t[n+1]); v_R[n + 1]
RL_Store_vR ==
    /\ topology = "RL"
    /\ pc = "store_vR"
    /\ R_proxima' = pegar_resistencia(t[n + 1])
    /\ v_R' = [v_R EXCEPT ![n + 1] = RMul[R_proxima', i_L[n + 1]]]
    /\ log' = Append(log, <<"v_R", n + 1>>)
    /\ pc' = "store_vL"
    /\ UNCHANGED <<config, err, grid, n, i_L, x, v_L, u, R_n, A, B,
                   lado_esquerdo, lado_direito, x_proximo, rlcSeries, rlcTemps>>

\* line 164: v_L[n + 1] = V_fonte - v_R[n + 1]
RL_Store_vL ==
    /\ topology = "RL"
    /\ pc = "store_vL"
    /\ v_L' = [v_L EXCEPT ![n + 1] = RSub[V_source, v_R[n + 1]]]
    /\ log' = Append(log, <<"v_L", n + 1>>)
    /\ pc' = "for"
    /\ UNCHANGED <<config, err, grid, n, i_L, x, v_R, rlTemps,
                   rlcSeries, rlcTemps>>

(***************************************************************************)
(* RLC script.  Vectors are pairs, matrices are pairs of rows.             *)
(***************************************************************************)
np_eye2 == <<<<One, Zero>>, <<Zero, One>>>>

MScale(c, M) == [i \in 1..2 |-> [j \in 1..2 |-> RMul[c, M[i][j]]]]
MAdd(M, K) == [i \in 1..2 |-> [j \in 1..2 |-> RAdd[M[i][j], K[i][j]]]]
MSub(M, K) == [i \in 1..2 |-> [j \in 1..2 |-> RSub[M[i][j], K[i][j]]]]
MatVec(M, v) ==
    [i \in 1..2 |-> RAdd[RMul[M[i][1], v[1]], RMul[M[i][2], v[2]]]]
VScale(c, v) == [i \in 1..2 |-> RMul[c, v[i]]]
VAdd(v, w) == [i \in 1..2 |-> RAdd[v[i], w[i]]]
Det2(M) == RSub[RMul[M[1][1], M[2][2]], RMul[M[1][2], M[2][1]]]

\* np.linalg.solve(M, b) for a non-singular 2x2 M
np_linalg_solve(M, b) ==
    <<RDiv[RSub[RMul[b[1], M[2][2]], RMul[M[1][2], b[2]]], Det2(M)],
      RDiv[RSub[RMul[M[1][1], b[2]], RMul[M[2][1], b[1]]], Det2(M)]>>

\* lines 12-14: n_steps = int(t_max / dt)
RLC_Steps ==
    /\ topology = "RLC"
    /\ pc = "setup"
    /\ IF dt = Zero
       THEN /\ RaiseError("ZeroDivisionError")
            /\ UNCHANGED n_steps
       ELSE /\ n_steps' = PyInt(RDiv[t_max, dt])
            /\ pc' = "alloc"
            /\ err' = err
    /\ UNCHANGED <<config, t, n, i_L, x, rlSeries, rlTemps, rlcSeries,
                   rlcTemps, log>>

\* lines 15-34: t, the zero series, x = [0, 0], u_vec = [V_source / L, 0]
RLC_Alloc ==
    /\ topology = "RLC"
    /\ pc = "alloc"
    /\ IF n_steps < 0
       THEN /\ RaiseError("ValueError")
            /\ UNCHANGED <<t, i_L, x, rlcSeries, u_vec>>
       ELSE /\ t' = np_linspace(t_max, n_steps)
            /\ i_L' = np_zeros(n_steps)
            /\ v_C' = np_zeros(n_steps)
            /\ i_load' = np_zeros(n_steps)
            /\ x' = <<Zero, Zero>>
            /\ IF L = Zero
               THEN /\ RaiseError("ZeroDivisionError")
                    /\ UNCHANGED u_vec
               ELSE /\ u_vec' = <<RDiv[V_source, L], Zero>>
                    /\ pc' = "for"
                    /\ err' = err
    /\ UNCHANGED <<config, n_steps, n, R_load_n, A_load, left_side,
                   right_side_matrix, right_side_vector, x_next, R_load_next,
                   rlSeries, rlTemps, log>>

\* line 37: for n in range(n_steps - 1)
RLC_For ==
    /\ topology = "RLC"
    /\ pc = "for"
    /\ IF n + 1 < n_steps - 1
       THEN n' = n + 1 /\ pc' = "build"
       ELSE n' = n /\ pc' = "done"
    /\ UNCHANGED <<config, err, grid, i_L, x, rlSeries, rlTemps,
                   rlcSeries, rlcTemps, log>>

\* lines 43-44: A_load = [[0, -1/L], [1/C, -1/(R_load_n * C)]]
RLC_A(R_val) ==
    <<<<Zero, RDiv[FromInt(-1), L]>>,
      <<RDiv[One, C], RDiv[FromInt(-1), RMul[R_val, C]]>>>>

\* lines 39-47: R_load_n, A_load
RLC_Build ==
    /\ topology = "RLC"
    /\ pc = "build"
    /\ R_load_n' = load_resistance(t[n])
    /\ IF C = Zero
       THEN /\ RaiseError("ZeroDivisionError")
            /\ UNCHANGED A_load
       ELSE /\ A_load' = RLC_A(R_load_n')
            /\ pc' = "solve"
            /\ err' = err
    /\ UNCHANGED <<config, grid, n, i_L, x, rlSeries, rlTemps, rlcSeries,
                   u_vec, left_side, right_side_matrix, right_side_vector,
                   x_next, R_load_next, log>>

\* lines 53-60: left_side, right_side_matrix, right_side_vector, x_next
RLC_Solve ==
    /\ topology = "RLC"
    /\ pc = "solve"
    /\ left_side' = MSub(np_eye2, MScale(Half_dt, A_load))
    /\ right_side_matrix' = MAdd(np_eye2, MScale(Half_dt, A_load))
    /\ right_side_vector' = VAdd(MatVec(right_side_matrix', x),
                                 VScale(dt, u_vec))
    /\ IF Det2(left_side') = Zero
       THEN /\ RaiseError("LinAlgError")
            /\ UNCHANGED x_next
       ELSE /\ x_next' = np_linalg_solve(left_side', right_side_vector')
            /\ pc' = "store_x"
            /\ err' = err
    /\ UNCHANGED <<config, grid, n, i_L, x, rlSeries, rlTemps, rlcSeries,
                   u_vec, R_load_n, A_load, R_load_next, log>>

\* lines 63-65: x = x_next; i_L[n + 1] = x[0]; v_C[n + 1] = x[1]
RLC_StoreState ==
    /\ topology = "RLC"
    /\ pc = "store_x"
    /\ x' = x_next
    /\ i_L' = [i_L EXCEPT ![n + 1] = x_next[1]]
    /\ v_C' = [v_C EXCEPT ![n + 1] = x_next[2]]
    /\ log' = log \o << <<"i_L", n + 1>>, <<"v_C", n + 1>> >>
    /\ pc' = "store_load"
    /\ UNCHANGED <<config, err, grid, n, i_load, rlSeries, rlTemps, rlcTemps>>

\* line 66: i_load[n + 1] = v_C[n + 1] / load_resistance(t[n+1])
RLC_StoreLoad ==
    /\ topology = "RLC"
    /\ pc = "store_load"
    /\ R_load_next' = load_resistance(t[n + 1])
    /\ i_load' = [i_load EXCEPT ![n + 1] = RDiv[v_C[n + 1], R_load_next']]
    /\ log' = Append(log, <<"i_load", n + 1>>)
    /\ pc' = "for"
    /\ UNCHANGED <<config, err, grid, n, i_L, x, v_C, rlSeries, rlTemps,
                   u_vec, R_load_n, A_load, left_side, right_side_matrix,
                   right_side_vector, x_next>>

Next ==
    \/ RL_Steps
    \/ RL_Alloc
    \/ RL_For
    \/ RL_Build
    \/ RL_Solve
    \/ RL_StoreState
    \/ RL_Store_vR
    \/ RL_Store_vL
    \/ RLC_Steps
    \/ RLC_Alloc
    \/ RLC_For
    \/ RLC_Build
    \/ RLC_Solve
    \/ RLC_StoreState
    \/ RLC_StoreLoad

Spec == Init /\ [][Next]_vars

\* The script keeps executing statements until it ends or raises.
FairSpec == Spec /\ WF_vars(Next)

(***************************************************************************)
(* Properties.                                                             *)
(***************************************************************************)
Indices == 0..(n_steps - 1)
Allocated == pc \notin {"setup", "alloc", "error"}
InBody == pc \in {"build", "solve", "store_i", "store_vR", "store_vL",
                  "store_x", "store_load"}
\* a configuration with positive L, C, dt and at least one grid instant
WellPosed ==
    /\ RLt[Zero, L]
    /\ topology = "RLC" => RLt[Zero, C]
    /\ RLt[Zero, dt]
    /\ PyInt(RDiv[t_max, dt]) >= 1

RL_Breakpoint == <<1, 20>>
RLC_Breakpoint == <<1, 200>>

\* C1: in every step the left-hand operator I - (dt/2)*A is built from the
\* parameters valid at t[n+1] and the right-hand operator I + (dt/2)*A from
\* the parameters valid at t[n].
C1_OperatorsUseBothEndpoints ==
    /\ (topology = "RL" /\ pc = "store_i") =>
          /\ lado_esquerdo =
                RSub[One, RMul[Half_dt, RL_A(pegar_resistencia(t[n + 1]))]]
          /\ lado_direito =
                RAdd[RMul[RAdd[One, RMul[Half_dt, RL_A(pegar_resistencia(t[n]))]], x],
                     RMul[RMul[dt, B], u]]
    /\ (topology = "RLC" /\ pc = "store_x") =>
          /\ left_side =
                MSub(np_eye2, MScale(Half_dt, RLC_A(load_resistance(t[n + 1]))))
          /\ right_side_matrix =
                MAdd(np_eye2, MScale(Half_dt, RLC_A(load_resistance(t[n]))))

\* C2: after the run every derived output equals the output equation applied
\* to the state at the same index and the schedule value at t[i]:
\* v_R[i] = pegar_resistencia(t[i]) * i_L[i] and
\* i_load[i] = v_C[i] / load_resistance(t[i]), index 0 and both sides of the
\* breakpoint included.
C2_OutputsUseOwnIndex ==
    pc = "done" =>
        /\ topology = "RL" =>
              \A i \in Indices : v_R[i] = RMul[pegar_resistencia(t[i]), i_L[i]]
        /\ topology = "RLC" =>
              \A i \in Indices : i_load[i] = RDiv[v_C[i], load_resistance(t[i])]

\* an RL run that crossed the breakpoint with a non-zero current
C2_Witness ==
    /\ pc = "done"
    /\ topology = "RL"
    /\ \E i \in Indices :
          /\ i >= 1
          /\ RLt[t[i - 1], RL_Breakpoint]
          /\ ~RLt[t[i], RL_Breakpoint]
          /\ i_L[i] # Zero
          /\ v_R[i] = i_L[i]

C3_Expected_RL(time) ==
    IF time = RL_Breakpoint THEN <<1, 1>>
    ELSE IF RLt[time, RL_Breakpoint] THEN <<10, 1>> ELSE <<1, 1>>

C3_Expected_RLC(time) ==
    IF time = RLC_Breakpoint THEN <<25, 1>>
    ELSE IF RLt[time, RLC_Breakpoint] THEN <<50, 1>> ELSE <<25, 1>>

\* the values the two calls of an iteration returned, and the agreement of
\* the two calls made at the same instant by consecutive iterations
C3_Values ==
    /\ (topology = "RL" /\ pc \in {"solve", "store_i", "store_vR"}) =>
          /\ R_n = C3_Expected_RL(t[n])
          /\ n >= 1 => R_n = R_proxima
    /\ (topology = "RL" /\ pc \in {"store_vL", "for"} /\ n >= 0) =>
          R_proxima = C3_Expected_RL(t[n + 1])
    /\ (topology = "RLC" /\ pc \in {"solve", "store_x", "store_load"}) =>
          /\ R_load_n = C3_Expected_RLC(t[n])
          /\ n >= 1 => R_load_n = R_load_next
    /\ (topology = "RLC" /\ pc = "for" /\ n >= 0) =>
          R_load_next = C3_Expected_RLC(t[n + 1])

\* the step that only queries the schedule leaves the simulation state alone
C3_Frame ==
    pc = "build" =>
        UNCHANGED <<config, grid, n, i_L, x, rlSeries, rlcSeries, log>>

\* C3: the schedule is piecewise constant with the boundary instant on the
\* post-event side (10.0 before 0.05 and 1.0 from 0.05 on; R_load_initial
\* before 0.005 and R_load_initial/2 from 0.005 on), the same instant always
\* yields the same value, and a call changes no simulation state.
C3_SchedulePure == []C3_Values /\ [][C3_Frame]_vars

\* the schedule was queried at the boundary instant itself
C3_Witness ==
    /\ topology = "RL"
    /\ pc = "solve"
    /\ n >= 1
    /\ t[n] = RL_Breakpoint
    /\ R_n = <<1, 1>>
    /\ R_proxima = <<1, 1>>

\* C4: index 0 of every output series holds the output equation applied to
\* the initial state; equivalently v_R[i] + v_L[i] = V_fonte at every index
\* of the RL run, index 0 included.
C4_KirchhoffEverywhere ==
    /\ (topology = "RL" /\ Allocated /\ WellPosed) =>
          /\ \A i \in Indices : i = 0 =>
                /\ i_L[i] = Zero
                /\ v_R[i] = RMul[pegar_resistencia(t[i]), i_L[i]]
                /\ v_L[i] = RSub[V_source, v_R[i]]
          /\ pc = "done" =>
                \A i \in Indices : RAdd[v_R[i], v_L[i]] = V_source
    /\ (topology = "RLC" /\ Allocated) =>
          \A i \in Indices : i = 0 =>
                /\ i_L[i] = Zero
                /\ v_C[i] = Zero
                /\ i_load[i] = RDiv[v_C[i], load_resistance(t[i])]

\* C5: consecutive grid instants are dt apart, dt being the step size the
\* trapezoidal update uses.
C5_GridSpacingIsDt ==
    (Allocated /\ WellPosed) =>
        /\ n_steps = PyInt(RDiv[t_max, dt])
        /\ \A k \in Indices : k = 0 => t[k] = Zero
        /\ \A k \in 0..(n_steps - 2) :
              /\ RLt[t[k], t[k + 1]]
              /\ RSub[t[k + 1], t[k]] = dt

Degenerate ==
    \/ topology = "RL" /\ L = Zero
    \/ topology = "RLC" /\ C = Zero

\* C6: L = 0 (RL) or C = 0 (RLC) raises DomainError before any loop
\* iteration begins, and dt <= 0 raises ConfigurationError before the loop.
C6_EagerValidation ==
    /\ Degenerate =>
          /\ n = -1
          /\ ~InBody
          /\ pc \notin {"for", "done"}
          /\ pc = "error" => err \in {"DomainError", "ConfigurationError"}
    /\ RLe[dt, Zero] =>
          /\ n = -1
          /\ pc \notin {"for", "done"}
          /\ pc = "error" => err \in {"DomainError", "ConfigurationError"}

\* C7: with a zero source voltage and the zero initial state, every entry of
\* every state and output series is zero at every index.
C7_ZeroInputStaysZero ==
    (V_source = Zero /\ Allocated) =>
        /\ \A i \in Indices : i_L[i] = Zero
        /\ topology = "RL" =>
              /\ x = Zero
              /\ \A i \in Indices : v_R[i] = Zero /\ v_L[i] = Zero
        /\ topology = "RLC" =>
              /\ x = <<Zero, Zero>>
              /\ \A i \in Indices : v_C[i] = Zero /\ i_load[i] = Zero

\* a zero-input run that crossed the breakpoint and completed
C7_Witness ==
    /\ V_source = Zero
    /\ pc = "done"
    /\ n_steps >= 5
    /\ Len(log) = 3 * (n_steps - 1)
    /\ \E i \in Indices :
          /\ i >= 1
          /\ t[i - 1] # t[i]
          /\ IF topology = "RL"
             THEN pegar_resistencia(t[i - 1]) # pegar_resistencia(t[i])
             ELSE load_resistance(t[i - 1]) # load_resistance(t[i])

\* C8: in the RL run with L = 0.1 and V = 220, over the indices whose state
\* was computed with R = 10.0 the current never decreases and never exceeds
\* the steady-state value 22.0.
C8_MonotoneBelowSteadyState ==
    (topology = "RL" /\ pc = "done" /\ L = <<1, 10>> /\ V_source = <<220, 1>>) =>
        \A k \in 0..(n_steps - 2) :
            pegar_resistencia(t[k]) = <<10, 1>> =>
                /\ RLe[i_L[k], i_L[k + 1]]
                /\ RLe[i_L[k + 1], <<22, 1>>]

\* a completed energisation with at least four pre-event steps still rising
C8_Witness ==
    /\ topology = "RL"
    /\ pc = "done"
    /\ L = <<1, 10>>
    /\ V_source = <<220, 1>>
    /\ n_steps >= 5
    /\ pegar_resistencia(t[3]) = <<10, 1>>
    /\ RLt[i_L[3], i_L[4]]
    /\ RLt[<<21, 1>>, i_L[4]]
    /\ RLt[i_L[4], <<22, 1>>]

SeriesNames == {"i_L", "v_R", "v_L", "v_C", "i_load"}
WritesOf(name) == SelectSeq(log, LAMBDA w : w[1] = name)

\* the writes of each series are at indices 1, 2, 3, ... in this order
C9_LogOrdered ==
    \A name \in SeriesNames :
        \A j \in 1..Len(WritesOf(name)) : WritesOf(name)[j][2] = j

C9_SeriesFrame(s, s_next) ==
    \A k \in DOMAIN s :
        /\ s_next[k] # s[k] => k = n + 1
        /\ k <= n => s_next[k] = s[k]
        /\ k = 0 => s_next[k] = s[k]

\* a step of the loop changes no entry but the one at index n + 1
C9_Frame ==
    Allocated =>
        /\ C9_SeriesFrame(i_L, i_L')
        /\ C9_SeriesFrame(v_R, v_R')
        /\ C9_SeriesFrame(v_L, v_L')
        /\ C9_SeriesFrame(v_C, v_C')
        /\ C9_SeriesFrame(i_load, i_load')

\* C9: the loop writes each series in increasing index order, each index at
\* most once: iteration n writes only index n + 1, index 0 is never written
\* and a written entry is never changed again.
C9_WriteOnceForward == []C9_LogOrdered /\ [][C9_Frame]_vars

\* three iterations completed, every series written at 1, 2, 3
C9_Witness ==
    /\ pc = "for"
    /\ n = 2
    /\ Len(log) = 9
    /\ i_L[3] # i_L[2]

SeriesOf(topo) ==
    IF topo = "RL" THEN {"i_L", "v_R", "v_L"} ELSE {"i_L", "v_C", "i_load"}

C10_Completed ==
    /\ n_steps = PyInt(RDiv[t_max, dt])
    /\ n = n_steps - 2
    /\ Len(log) = 3 * (n_steps - 1)
    /\ \A name \in SeriesOf(topology) :
          WritesOf(name) = [j \in 1..(n_steps - 1) |-> <<name, j>>]

\* C10: a well-posed run never raises and always ends, after exactly N-1
\* steps, with every index 1..N-1 of every series written.
C10_RunsToCompletion ==
    /\ [](WellPosed => pc # "error")
    /\ []((WellPosed /\ pc = "done") => C10_Completed)
    /\ (WellPosed ~> pc = "done")

\* a well-posed run of several steps has completed
C10_Witness ==
    /\ WellPosed
    /\ pc = "done"
    /\ n_steps >= 6
    /\ n = n_steps - 2
    /\ Len(log) = 3 * (n_steps - 1)


=============================================================================
